---- MODULE Spec2Model ----
(***************************************************************************)
(* The conversation reconciliation engine of the Chat component, in its    *)
(* two variants: the manual replay variant (first Chat of                  *)
(* src/unnamed/part_000, lines 21-315) and the server-delegated variant    *)
(* (second Chat, lines 345-640), with the text accessor getTextFromParts   *)
(* of src/unnamed/part_001 and the check constraints of the parts table of *)
(* src/lib/db/schema.ts.                                                   *)
(*                                                                         *)
(* Spec is the chat under its edit and reload handlers; ChatSpec adds      *)
(* onQuerySelect and stop(); GatedSpec is ChatSpec with the handlers       *)
(* invoked only while isLoading is false; RaceSpec is the manual chat      *)
(* whose reload handler may belong to an earlier render; SubmitSpec is the *)
(* input box of the delegated chat; PartsSpec is the parts table; TextSpec *)
(* is getTextFromParts.                                                    *)
(*                                                                         *)
(* An async handler is one action per run-to-completion segment: from its  *)
(* invocation to its first await, and from the settlement of each awaited  *)
(* promise to the next await or to its end.                                *)
(***************************************************************************)
EXTENDS Integers, Sequences, FiniteSets, TLC

\* ------------------------------------------------------------------ bounds
\* longest message log handed in at mount (savedMessages)
MaxLen == 3
\* number of edit / reload handler invocations in one behaviour
MaxOps == 1
\* most rows the parts table comes to hold
MaxRows == 1
\* longest parts array handed to getTextFromParts
MaxParts == 3

VARIABLES
    strategy,        \* "manual" | "delegated": which Chat variant is mounted
    messages,        \* useChat's message log (messages / prevMessages)
    status,          \* useChat's status
    ops,             \* the handler invocations so far, each with its position
    toasts,          \* toast.error notifications shown, oldest first
    deleteCalls,     \* deleteTrailingMessages(id, pivot) requests issued
    transportCalls,  \* request bodies handed to the transport
    nextId,          \* source of generateUUID / generateId
    clock,           \* source of new Date()
    store,           \* the message records the chat store holds
    stops,           \* the number of stop() calls so far
    abandoned,       \* deltas of an exchange cut off by stop() are under way
    budget,          \* handler invocations one behaviour may make
    dbParts,         \* rows of the parts table
    insertResult,    \* outcome of the last insert into the parts table
    accessed,        \* a call of getTextFromParts: its argument, its result
    seen,            \* None, or the `messages` of a render still on screen
                     \* that the log may have moved on from: the log the
                     \* handlers of that render close over
    input,           \* the text of the input box, one character per element
    uploadedFiles    \* the attachments of the input box, in order

vars == <<strategy, messages, status, ops, toasts, deleteCalls,
          transportCalls, nextId, clock, store, stops, abandoned, budget,
          dbParts, insertResult, accessed, seen, input, uploadedFiles>>

\* what the handlers of Chat and the transport never touch
others == <<stops, abandoned, budget, dbParts, insertResult, accessed, seen,
            input, uploadedFiles>>

\* ------------------------------------------------------------ optional values
\* x?: T is the empty set when undefined and {v} when it holds v
None == {}
Some(v) == {v}
The(o) == CHOOSE v \in o : TRUE

\* the id prop of Chat (a non-empty string: the `if (!id)` guards pass)
ChatId == "chat-1"

\* ------------------------------------------------------------------- parts
TextPart(s) == [type |-> "text", text |-> s]
FilePart == [type |-> "file", url |-> "blob:f"]

RECURSIVE Filter(_, _)
\* Array.prototype.filter(p => p.type === t)
Filter(ps, t) ==
    IF ps = <<>> THEN <<>>
    ELSE IF Head(ps).type = t THEN <<Head(ps)>> \o Filter(Tail(ps), t)
    ELSE Filter(Tail(ps), t)

RECURSIVE Join(_, _)
\* Array.prototype.join(sep) of the text of each part: "" for no element
Join(ps, sep) ==
    IF ps = <<>> THEN ""
    ELSE IF Len(ps) = 1 THEN Head(ps).text
    ELSE Head(ps).text \o sep \o Join(Tail(ps), sep)

getTextFromPartsUnfiltered(parts) ==
    IF parts = None THEN ""
    ELSE Join(SelectSeq(The(parts), LAMBDA part : "text" \in DOMAIN part), " ")

\* parts?.filter(part => part.type === 'text').map(part => part.text).join(' ') ?? ''
getTextFromParts(parts) ==
    IF parts = None THEN "" ELSE Join(Filter(The(parts), "text"), " ")

\* --------------------------------------------------------------- timestamps
Digit(d) == <<"0", "1", "2", "3", "4", "5", "6", "7", "8", "9">>[d + 1]

\* Date.prototype.toISOString() of a time t (milliseconds since the epoch)
\* below one second
toISOString(t) ==
    "1970-01-01T00:00:00." \o Digit((t \div 100) % 10) \o Digit((t \div 10) % 10)
        \o Digit(t % 10) \o "Z"

\* new Date(0).toISOString()
EpochISO == toISOString(0)

PivotOfEpochOnly(m) == EpochISO

\* message.createdAt?.toISOString() ?? new Date(0).toISOString()
PivotOf(m) ==
    IF m.createdAt = None THEN EpochISO ELSE toISOString(The(m.createdAt))

\* ------------------------------------------------------------------ the log
Roles == {"user", "assistant", "system"}

Ids(log) == {log[i].id : i \in 1..Len(log)}

\* Array.prototype.findIndex(m => m.id === id), 0-based, -1 when absent
FindIndex(log, id) ==
    IF id \in Ids(log)
    THEN (CHOOSE i \in 1..Len(log) :
            log[i].id = id /\ \A j \in 1..(i - 1) : log[j].id # id) - 1
    ELSE -1

\* Array.prototype.slice(0, n) for n >= 0
Slice(log, n) == SubSeq(log, 1, IF n < Len(log) THEN n ELSE Len(log))

\* the shapes a saved user message of the manual variant comes in (a v4
\* Message: optional parts, plain content, optional createdAt)
UserShapes ==
    { [parts |-> Some(<<TextPart("a")>>), content |-> Some("a")],
      [parts |-> Some(<<TextPart("a"), TextPart("b")>>), content |-> Some("ab")],
      [parts |-> Some(<<FilePart, TextPart("a")>>), content |-> Some("a")],
      [parts |-> Some(<<TextPart("")>>), content |-> Some("c")],
      [parts |-> None, content |-> Some("c")],
      [parts |-> Some(<<FilePart>>), content |-> None] }

PlainShape == [parts |-> Some(<<TextPart("a")>>), content |-> Some("a")]

\* the shapes of a saved user message of the delegated variant (a v5
\* UIMessage: parts only, neither content nor createdAt)
UIShapes ==
    { [parts |-> Some(<<TextPart("a")>>), content |-> None],
      [parts |-> Some(<<FilePart, TextPart("a")>>), content |-> None] }

SavedMessage(i, role, shape, createdAt) ==
    [id |-> i,
     role |-> role,
     parts |-> IF role = "user" THEN shape.parts ELSE Some(<<TextPart("r")>>),
     content |-> IF role = "user" \/ shape.content = None
                 THEN shape.content ELSE Some("r"),
     createdAt |-> createdAt]

RoleSequences == UNION { [1..n -> Roles] : n \in 0..MaxLen }

\* savedMessages: every role sequence up to MaxLen, ids unique. Manual
\* variant: createdAt increasing along the log, the user messages in every
\* shape, and logs in which one message has no createdAt
SavedLogs(variant) ==
    IF variant = "manual"
    THEN { [i \in 1..Len(rs) |-> SavedMessage(i, rs[i], shape, Some(i))] :
             rs \in RoleSequences, shape \in UserShapes }
         \cup
         UNION { { [i \in 1..Len(rs) |->
                      SavedMessage(i, rs[i], PlainShape,
                                   IF i = u THEN None ELSE Some(i))] :
                   u \in 1..Len(rs) } : rs \in RoleSequences }
    ELSE { [i \in 1..Len(rs) |-> SavedMessage(i, rs[i], shape, None)] :
             rs \in RoleSequences, shape \in UIShapes }

\* ---------------------------------------------------------- section builder
RECURSIVE SectionsFrom(_, _, _)
\* the loop of the sections memo: result so far, currentSection (None or
\* Some(section)), the messages still to visit
SectionsFrom(result, current, rest) ==
    IF rest = <<>>
    THEN IF current # None THEN Append(result, The(current)) ELSE result
    ELSE LET message == Head(rest) IN
         IF message.role = "user"
         THEN SectionsFrom(
                 IF current # None THEN Append(result, The(current)) ELSE result,
                 Some([id |-> message.id, userMessage |-> message,
                       assistantMessages |-> <<>>]),
                 Tail(rest))
         ELSE IF current # None /\ message.role = "assistant"
         THEN SectionsFrom(
                 result,
                 Some([The(current) EXCEPT
                         !.assistantMessages = Append(@, message)]),
                 Tail(rest))
         ELSE SectionsFrom(result, current, Tail(rest))

SectionsWithoutLastFlush(log) ==
    LET flushed == SectionsFrom(<<>>, None, log)
    IN IF flushed = <<>> THEN flushed ELSE SubSeq(flushed, 1, Len(flushed) - 1)

\* const sections = useMemo(() => { ... }, [messages])
Sections(log) == SectionsFrom(<<>>, None, log)

sections == Sections(messages)

\* -------------------------------------------------------------------- state
isLoading == status = "submitted" \/ status = "streaming"

\* the records the store holds for a saved log: one per message, stamped in
\* log order (the store stamps every record, whatever the client kept)
StoreOf(log) == {[id |-> log[i].id, createdAt |-> i] : i \in 1..Len(log)}

\* Chat mounted on a saved log, nothing requested yet, with `invocations`
\* handler invocations to come
Mounted(logs, invocations) ==
    /\ messages \in logs
    /\ status = "ready"
    /\ ops = <<>>
    /\ toasts = <<>>
    /\ deleteCalls = <<>>
    /\ transportCalls = <<>>
    /\ nextId = Len(messages) + 1
    /\ clock = Len(messages) + 1
    /\ store = StoreOf(messages)
    /\ stops = 0
    /\ abandoned = FALSE
    /\ budget = invocations
    /\ dbParts = {}
    /\ insertResult = "none"
    /\ accessed = None
    /\ seen = None
    /\ input = <<>>
    /\ uploadedFiles = <<>>

Init ==
    /\ strategy \in {"manual", "delegated"}
    /\ Mounted(SavedLogs(strategy), MaxOps)

\* generateUUID() / generateId(): an id no message carries yet
generateUUID == nextId

Last(seq) == seq[Len(seq)]

\* one handler invocation: kind "edit" | "reload", arg the message id it was
\* given, text the new text of an edit, newId the id of the message it
\* spliced in (0: none), pc its position
Op(kind, arg, text, newId, pc) ==
    [kind |-> kind, arg |-> arg, text |-> text, newId |-> newId, pc |-> pc]

SetPc(o, pc) == [ops EXCEPT ![o].pc = pc]

\* a request settles or is replaced on the transport: the awaited reload() /
\* regenerate() promise resolves (the hook reports through onError and does
\* not rethrow)
Settled(os) == [o \in 1..Len(os) |->
    IF os[o].pc = "awaitTransport" THEN [os[o] EXCEPT !.pc = "done"] ELSE os[o]]

NotifySilently(shown, message) == shown

\* toast.error(message)
Notify(shown, message) == Append(shown, message)

\* deleteTrailingMessages(chatId, pivot) called by invocation o
DeleteCall(o, pivot) ==
    [op |-> o, chatId |-> ChatId, pivot |-> pivot, state |-> "pending"]

\* new Date(iso).getTime() for a string toISOString made
TimeOf(iso) == CHOOSE t \in 0..clock : toISOString(t) = iso

\* the store's side of deleteTrailingMessages(chatId, pivot): the records
\* strictly newer than the pivot are deleted
deleteTrailingMessages(records, pivot) ==
    {r \in records : ~(r.createdAt > TimeOf(pivot))}

\* the position in deleteCalls of the request invocation o made
DeleteOf(o) == CHOOSE k \in 1..Len(deleteCalls) : deleteCalls[k].op = o

\* the truncation request of invocation o settles as `state`
SettleDelete(o, state) == [k \in 1..Len(deleteCalls) |->
    IF deleteCalls[k].op = o THEN [deleteCalls[k] EXCEPT !.state = state]
    ELSE deleteCalls[k]]

\* ------------------------------------------------- manual variant (use v4)
SpliceEditedKeepsTarget(prevMessages, editedMessageId, newContentText, uuid, now) ==
    LET messageIndex == FindIndex(prevMessages, editedMessageId)
    IN Slice(prevMessages, messageIndex + 1)
       \o <<[id |-> uuid, role |-> "user", content |-> Some(newContentText),
             parts |-> Some(<<TextPart(newContentText)>>),
             createdAt |-> Some(now)]>>

\* the setMessages updater of handleUpdateAndReloadMessage
SpliceEdited(prevMessages, editedMessageId, newContentText, uuid, now) ==
    LET messageIndex == FindIndex(prevMessages, editedMessageId)
        messagesBeforeEdited ==
            IF messageIndex # -1 THEN Slice(prevMessages, messageIndex)
            ELSE prevMessages
        newUIMessage ==
            [id |-> uuid, role |-> "user", content |-> Some(newContentText),
             parts |-> Some(<<TextPart(newContentText)>>),
             createdAt |-> Some(now)]
    IN messagesBeforeEdited \o <<newUIMessage>>

\* handleUpdateAndReloadMessage from the try block to
\* `await deleteTrailingMessages(id, pivotTimestamp)`
ManualEditProceed(editedMessageId, newContentText, pivotTimestamp) ==
    /\ messages' = SpliceEdited(messages, editedMessageId, newContentText,
                                generateUUID, clock)
    /\ deleteCalls' = Append(deleteCalls, DeleteCall(Len(ops) + 1, pivotTimestamp))
    /\ ops' = Append(ops, Op("edit", editedMessageId, newContentText,
                             generateUUID, "awaitDelete"))
    /\ nextId' = nextId + 1
    /\ clock' = clock + 1
    /\ UNCHANGED toasts

ManualEditUnchecked(editedMessageId, newContentText) ==
    /\ strategy = "manual"
    /\ Len(ops) < budget
    /\ ManualEditProceed(editedMessageId, newContentText,
           IF editedMessageId \in Ids(messages)
           THEN PivotOf(messages[FindIndex(messages, editedMessageId) + 1])
           ELSE EpochISO)
    /\ UNCHANGED <<strategy, store, others, status, transportCalls>>

\* handleUpdateAndReloadMessage up to its first await
ManualEdit(editedMessageId, newContentText) ==
    /\ strategy = "manual"
    /\ Len(ops) < budget
    /\ IF editedMessageId \notin Ids(messages)
       THEN /\ toasts' = Notify(toasts, "Original message not found to edit locally.")
            /\ ops' = Append(ops, Op("edit", editedMessageId, newContentText, 0,
                                     "aborted"))
            /\ UNCHANGED <<messages, deleteCalls, nextId, clock>>
       ELSE LET pivotMessage == messages[FindIndex(messages, editedMessageId) + 1]
                pivotTimestamp == PivotOf(pivotMessage)
            IN ManualEditProceed(editedMessageId, newContentText, pivotTimestamp)
    /\ UNCHANGED <<strategy, store, others, status, transportCalls>>

contentToResendPartsOnly(targetUserMessage) ==
    IF targetUserMessage.parts = None THEN ""
    ELSE Join(Filter(The(targetUserMessage.parts), "text"), "")

\* targetUserMessage.parts?.filter(p => p.type === 'text').map(p => p.text)
\*   .join('') || targetUserMessage.content || ''
contentToResend(targetUserMessage) ==
    LET fromParts ==
            IF targetUserMessage.parts = None THEN None
            ELSE Some(Join(Filter(The(targetUserMessage.parts), "text"), ""))
    IN IF fromParts # None /\ The(fromParts) # "" THEN The(fromParts)
       ELSE IF targetUserMessage.content # None
               /\ The(targetUserMessage.content) # ""
       THEN The(targetUserMessage.content)
       ELSE ""

SpliceResentKeepsTarget(prevMessages, targetUserMessageIndex, text, uuid, now) ==
    Slice(prevMessages, targetUserMessageIndex + 1)
    \o <<[id |-> uuid, role |-> "user", content |-> Some(text),
          parts |-> Some(<<TextPart(text)>>), createdAt |-> Some(now)]>>

\* the setMessages updater of handleReloadFrom
SpliceResent(prevMessages, targetUserMessageIndex, text, uuid, now) ==
    LET messagesBeforeTarget == Slice(prevMessages, targetUserMessageIndex)
        newResentUserMessage ==
            [id |-> uuid, role |-> "user", content |-> Some(text),
             parts |-> Some(<<TextPart(text)>>), createdAt |-> Some(now)]
    IN messagesBeforeTarget \o <<newResentUserMessage>>

NotResendableOnlySystem(targetUserMessage) == targetUserMessage.role = "system"

\* targetUserMessage.role !== 'user'
NotResendable(targetUserMessage) == targetUserMessage.role # "user"

\* handleReloadFrom up to its first await, as the handler of a render that
\* showed the log `snapshot`: validation, the message to resend and the
\* pivot are read from the snapshot, and the updater is applied to the log
\* setMessages hands it
handleReloadFrom(snapshot, reloadFromFollowerMessageId) ==
    /\ strategy = "manual"
    /\ Len(ops) < budget
    /\ LET followerMessageIndex == FindIndex(snapshot, reloadFromFollowerMessageId)
           targetUserMessageIndex == followerMessageIndex - 1
       IN IF followerMessageIndex < 1
          THEN /\ toasts' = Notify(toasts,
                     "Cannot reload: No preceding message found or message is the first.")
               /\ ops' = Append(ops, Op("reload", reloadFromFollowerMessageId, "",
                                        0, "aborted"))
               /\ UNCHANGED <<messages, deleteCalls, nextId, clock>>
          ELSE IF NotResendable(snapshot[targetUserMessageIndex + 1])
          THEN /\ toasts' = Notify(toasts,
                     "Cannot reload: The message to resend must be a user message.")
               /\ ops' = Append(ops, Op("reload", reloadFromFollowerMessageId, "",
                                        0, "aborted"))
               /\ UNCHANGED <<messages, deleteCalls, nextId, clock>>
          ELSE LET targetUserMessage == snapshot[targetUserMessageIndex + 1]
                   followerMessage == snapshot[followerMessageIndex + 1]
                   deletionTimestamp == PivotOf(followerMessage)
               IN /\ messages' = SpliceResent(messages, targetUserMessageIndex,
                                     contentToResend(targetUserMessage),
                                     generateUUID, clock)
                  /\ deleteCalls' = Append(deleteCalls,
                         DeleteCall(Len(ops) + 1, deletionTimestamp))
                  /\ ops' = Append(ops, Op("reload", reloadFromFollowerMessageId,
                                           "", generateUUID, "awaitDelete"))
                  /\ nextId' = nextId + 1
                  /\ clock' = clock + 1
                  /\ UNCHANGED toasts
    /\ UNCHANGED <<strategy, store, others, status, transportCalls>>

\* handleReloadFrom invoked from the render of the current log
ManualReloadFrom(reloadFromFollowerMessageId) ==
    handleReloadFrom(messages, reloadFromFollowerMessageId)

prepareRequestBodyFirst(bodyMessages) ==
    [id |-> ChatId,
     message |-> IF bodyMessages = <<>> THEN None ELSE Some(Head(bodyMessages))]

\* experimental_prepareRequestBody: body => ({ id, message: body.messages.at(-1) })
prepareRequestBody(bodyMessages) ==
    [id |-> ChatId,
     message |-> IF bodyMessages = <<>> THEN None ELSE Some(Last(bodyMessages))]

\* reload() of the v4 hook re-requests the answer to the log's tail: a
\* trailing assistant message is dropped first
ReloadMessages(log) ==
    IF log # <<>> /\ Last(log).role = "assistant"
    THEN SubSeq(log, 1, Len(log) - 1) ELSE log

\* `await reload()` is reached by invocation o
CallReload(o) ==
    IF messages = <<>>
    THEN \* reload() on an empty log returns without a request
         /\ ops' = SetPc(o, "done")
         /\ UNCHANGED <<messages, status, transportCalls>>
    ELSE /\ messages' = ReloadMessages(messages)
         /\ transportCalls' = Append(transportCalls,
                [op |-> o, body |-> prepareRequestBody(ReloadMessages(messages))])
         /\ status' = "submitted"
         /\ ops' = [Settled(ops) EXCEPT ![o].pc = "awaitTransport"]

\* the message of the toast in each handler's catch block
CatchToast(kind) ==
    IF kind = "edit" THEN "Error processing edited message"
    ELSE "Failed to reload conversation"

\* `await deleteTrailingMessages(...)` resolved: `await reload()` is next
ManualDeleteResolved(o) ==
    /\ strategy = "manual"
    /\ ops[o].pc = "awaitDelete"
    /\ deleteCalls' = SettleDelete(o, "resolved")
    /\ store' = deleteTrailingMessages(store, deleteCalls[DeleteOf(o)].pivot)
    /\ CallReload(o)
    /\ UNCHANGED <<strategy, others, toasts, nextId, clock>>

ManualDeleteRejectedStillReloads(o) ==
    /\ strategy = "manual"
    /\ ops[o].pc = "awaitDelete"
    /\ deleteCalls' = SettleDelete(o, "rejected")
    /\ CallReload(o)
    /\ toasts' = Notify(toasts, CatchToast(ops[o].kind))
    /\ UNCHANGED <<strategy, store, others, nextId, clock>>

ManualDeleteRejectedRollsBack(o) ==
    /\ strategy = "manual"
    /\ ops[o].pc = "awaitDelete"
    /\ deleteCalls' = SettleDelete(o, "rejected")
    /\ messages' = SelectSeq(messages, LAMBDA m : m.id # ops[o].newId)
    /\ toasts' = Notify(toasts, CatchToast(ops[o].kind))
    /\ ops' = SetPc(o, "failed")
    /\ UNCHANGED <<strategy, store, others, status, transportCalls, nextId, clock>>

\* `await deleteTrailingMessages(...)` rejected: the catch block runs
ManualDeleteRejected(o) ==
    /\ strategy = "manual"
    /\ ops[o].pc = "awaitDelete"
    /\ deleteCalls' = SettleDelete(o, "rejected")
    /\ toasts' = Notify(toasts, CatchToast(ops[o].kind))
    /\ ops' = SetPc(o, "failed")
    /\ UNCHANGED <<strategy, store, others, messages, status, transportCalls, nextId, clock>>

\* --------------------------------------------- delegated variant (use v5)
prepareSendMessagesRequestAnyRole(requestMessages, trigger, messageId) ==
    IF trigger = "regenerate-assistant-message"
    THEN [trigger |-> "regenerate-assistant-message",
          chatId |-> ChatId,
          messageId |-> messageId,
          message |-> IF The(messageId) \in Ids(requestMessages)
                      THEN Some(requestMessages[
                               FindIndex(requestMessages, The(messageId)) + 1])
                      ELSE None]
    ELSE [trigger |-> "submit-user-message",
          chatId |-> ChatId,
          message |-> IF requestMessages = <<>> THEN None
                      ELSE Some(Last(requestMessages)),
          messageId |-> messageId]

\* prepareSendMessagesRequest({ messages, trigger, messageId }).body
prepareSendMessagesRequest(requestMessages, trigger, messageId) ==
    IF trigger = "regenerate-assistant-message"
    THEN LET found == {i \in 1..Len(requestMessages) :
                          i - 1 = FindIndex(requestMessages, The(messageId))}
         IN [trigger |-> "regenerate-assistant-message",
             chatId |-> ChatId,
             messageId |-> messageId,
             message |-> IF found # {} /\ requestMessages[The(found)].role = "user"
                         THEN Some(requestMessages[The(found)]) ELSE None]
    ELSE [trigger |-> "submit-user-message",
          chatId |-> ChatId,
          message |-> IF requestMessages = <<>> THEN None
                      ELSE Some(Last(requestMessages)),
          messageId |-> messageId]

UpdateInPlaceOrInsert(prevMessages, editedMessageId, newContentText) ==
    IF FindIndex(prevMessages, editedMessageId) = -1
    THEN Append(prevMessages,
             [id |-> editedMessageId, role |-> "user", content |-> None,
              parts |-> Some(<<TextPart(newContentText)>>), createdAt |-> None])
    ELSE [prevMessages EXCEPT
            ![FindIndex(prevMessages, editedMessageId) + 1].parts =
                Some(<<TextPart(newContentText)>>)]

UpdateInPlaceAsUserMessage(prevMessages, editedMessageId, newContentText) ==
    LET messageIndex == FindIndex(prevMessages, editedMessageId)
    IN IF messageIndex = -1 THEN prevMessages
       ELSE [prevMessages EXCEPT
               ![messageIndex + 1] =
                   [id |-> editedMessageId, role |-> "user", content |-> None,
                    parts |-> Some(<<TextPart(newContentText)>>),
                    createdAt |-> None]]

\* the setMessages updater of the delegated handleUpdateAndReloadMessage
UpdateInPlace(prevMessages, editedMessageId, newContentText) ==
    LET messageIndex == FindIndex(prevMessages, editedMessageId)
    IN IF messageIndex = -1 THEN prevMessages
       ELSE [prevMessages EXCEPT
               ![messageIndex + 1].parts = Some(<<TextPart(newContentText)>>)]

\* regenerate({ messageId }) of the v5 hook throws when no message of the log
\* carries the id
RegenerateThrows(log, messageId) == FindIndex(log, messageId) = -1

\* otherwise it cuts the log after the message (before it when it is an
\* assistant message) and sends the request
RegenerateLog(log, messageId) ==
    LET messageIndex == FindIndex(log, messageId)
    IN Slice(log, IF log[messageIndex + 1].role = "assistant"
                  THEN messageIndex ELSE messageIndex + 1)

\* `await regenerate({ messageId })` inside the try block of a handler
\* invocation, on the log as the handler left it
CallRegenerate(kind, text, log, messageId) ==
    IF RegenerateThrows(log, messageId)
    THEN /\ messages' = log
         /\ toasts' = Notify(toasts, CatchToast(kind))
         /\ ops' = Append(ops, Op(kind, messageId, text, 0, "failed"))
         /\ UNCHANGED <<status, transportCalls>>
    ELSE /\ messages' = RegenerateLog(log, messageId)
         /\ transportCalls' = Append(transportCalls,
                [op |-> Len(ops) + 1,
                 body |-> prepareSendMessagesRequest(RegenerateLog(log, messageId),
                              "regenerate-assistant-message", Some(messageId))])
         /\ status' = "submitted"
         /\ ops' = Append(Settled(ops),
                          Op(kind, messageId, text, 0, "awaitTransport"))
         /\ UNCHANGED toasts

DelegatedEditRequestsFirst(editedMessageId, newContentText) ==
    /\ strategy = "delegated"
    /\ Len(ops) < budget
    /\ CallRegenerate("edit", newContentText, messages, editedMessageId)
    /\ UNCHANGED <<strategy, store, others, deleteCalls, nextId, clock>>

\* handleUpdateAndReloadMessage of the delegated variant
DelegatedEdit(editedMessageId, newContentText) ==
    /\ strategy = "delegated"
    /\ Len(ops) < budget
    /\ CallRegenerate("edit", newContentText,
           UpdateInPlace(messages, editedMessageId, newContentText),
           editedMessageId)
    /\ UNCHANGED <<strategy, store, others, deleteCalls, nextId, clock>>

\* handleReloadFrom of the delegated variant
DelegatedReloadFrom(reloadFromFollowerMessageId) ==
    /\ strategy = "delegated"
    /\ Len(ops) < budget
    /\ CallRegenerate("reload", "", messages, reloadFromFollowerMessageId)
    /\ UNCHANGED <<strategy, store, others, deleteCalls, nextId, clock>>

\* ------------------------------------------------------------ the transport
\* the first delta of the response: a new assistant message, status streaming
StreamDelta ==
    /\ status = "submitted"
    /\ messages' = Append(messages,
           [id |-> generateUUID, role |-> "assistant",
            content |-> IF strategy = "manual" THEN Some("r") ELSE None,
            parts |-> Some(<<TextPart("r")>>),
            createdAt |-> IF strategy = "manual" THEN Some(clock) ELSE None])
    /\ status' = "streaming"
    /\ nextId' = nextId + 1
    /\ clock' = clock + 1
    /\ UNCHANGED <<strategy, store, others, ops, toasts, deleteCalls, transportCalls>>

\* the stream ends: status ready, the awaited reload() / regenerate() resolves
StreamFinish ==
    /\ status = "streaming"
    /\ status' = "ready"
    /\ ops' = Settled(ops)
    /\ UNCHANGED <<strategy, store, others, messages, toasts, deleteCalls, transportCalls,
                   nextId, clock>>

TransportFailsAndRejects ==
    /\ isLoading
    /\ status' = "error"
    /\ toasts' = Notify(Notify(toasts, "Error in chat"),
                        CatchToast(ops[Last(transportCalls).op].kind))
    /\ ops' = Settled(ops)
    /\ UNCHANGED <<strategy, store, others, messages, deleteCalls, transportCalls, nextId, clock>>

\* the request or the stream fails: onError shows its toast
TransportFails ==
    /\ isLoading
    /\ status' = "error"
    /\ toasts' = Notify(toasts, "Error in chat")
    /\ ops' = Settled(ops)
    /\ UNCHANGED <<strategy, store, others, messages, deleteCalls, transportCalls, nextId, clock>>

\* ------------------------------------------------------------------- inputs
\* ids a handler may be given: those of the log, and one no message carries
MessageIds == Ids(messages) \cup {0}
NewTexts == {"X", ""}

Next ==
    \/ \E id \in MessageIds, text \in NewTexts : ManualEdit(id, text)
    \/ \E id \in MessageIds : ManualReloadFrom(id)
    \/ \E o \in 1..Len(ops) : ManualDeleteResolved(o)
    \/ \E o \in 1..Len(ops) : ManualDeleteRejected(o)
    \/ \E id \in MessageIds, text \in NewTexts : DelegatedEdit(id, text)
    \/ \E id \in MessageIds : DelegatedReloadFrom(id)
    \/ StreamDelta
    \/ StreamFinish
    \/ TransportFails

Spec == Init /\ [][Next]_vars

\* ------------------------------------------- sending, stopping, late deltas
StopRecordsError ==
    /\ stops < budget
    /\ stops' = stops + 1
    /\ ops' = Settled(ops)
    /\ status' = "error"
    /\ toasts' = Notify(toasts, "Error in chat")
    /\ abandoned' = (abandoned \/ isLoading)
    /\ UNCHANGED <<strategy, store, budget, dbParts, insertResult, accessed,
                   seen, input, uploadedFiles,
                   messages, deleteCalls, transportCalls, nextId, clock>>

StopCancelsTruncation ==
    /\ stops < budget
    /\ stops' = stops + 1
    /\ ops' = [o \in 1..Len(ops) |->
                 IF ops[o].pc \in {"awaitDelete", "awaitTransport"}
                 THEN [ops[o] EXCEPT !.pc = "done"] ELSE ops[o]]
    /\ deleteCalls' = [k \in 1..Len(deleteCalls) |->
                          IF deleteCalls[k].state = "pending"
                          THEN [deleteCalls[k] EXCEPT !.state = "cancelled"]
                          ELSE deleteCalls[k]]
    /\ status' = IF isLoading THEN "ready" ELSE status
    /\ abandoned' = (abandoned \/ isLoading)
    /\ UNCHANGED <<strategy, store, budget, dbParts, insertResult, accessed,
                   seen, input, uploadedFiles,
                   messages, toasts, transportCalls, nextId, clock>>

\* stop(): the active exchange, when there is one, is cut off (its promise
\* settles, the status is ready, no error is reported, its deltas still
\* under way are abandoned); without an active exchange nothing happens
Stop ==
    /\ stops < budget
    /\ stops' = stops + 1
    /\ ops' = IF isLoading THEN Settled(ops) ELSE ops
    /\ status' = IF isLoading THEN "ready" ELSE status
    /\ abandoned' = (abandoned \/ isLoading)
    /\ UNCHANGED <<strategy, store, budget, dbParts, insertResult, accessed,
                   seen, input, uploadedFiles,
                   messages, toasts, deleteCalls, transportCalls, nextId, clock>>

\* a delta of an exchange stop() cut off arrives and is dropped
LateDelta ==
    /\ abandoned
    /\ abandoned' = FALSE
    /\ UNCHANGED <<strategy, store, stops, budget, dbParts, insertResult,
                   accessed, seen, input, uploadedFiles, messages, status, ops, toasts, deleteCalls,
                   transportCalls, nextId, clock>>

\* onQuerySelect(query): append({ role: 'user', content: query }) in the
\* manual variant, sendMessage({ role: 'user', parts: [text query] }) in the
\* delegated one; the hook adds the message to the log and requests an answer
QuerySelect(query) ==
    /\ Len(ops) < budget
    /\ LET manual == strategy = "manual"
           message == [id |-> generateUUID, role |-> "user",
                       content |-> IF manual THEN Some(query) ELSE None,
                       parts |-> Some(<<TextPart(query)>>),
                       createdAt |-> IF manual THEN Some(clock) ELSE None]
           log == Append(messages, message)
       IN /\ messages' = log
          /\ transportCalls' = Append(transportCalls,
                 [op |-> Len(ops) + 1,
                  body |-> IF manual THEN prepareRequestBody(log)
                           ELSE prepareSendMessagesRequest(log,
                                    "submit-user-message", None)])
    /\ status' = "submitted"
    /\ ops' = Append(Settled(ops), Op("send", 0, query, generateUUID, "done"))
    /\ nextId' = nextId + 1
    /\ clock' = clock + 1
    /\ UNCHANGED <<strategy, store, others, toasts, deleteCalls>>

Queries == {"q"}

\* the logs the chat with sends and stop is mounted on: conversations of
\* alternating user and assistant messages, each with one text part (and, in
\* the manual variant, its content and createdAt)
ChatLogs(variant) ==
    { [i \in 1..n |->
          SavedMessage(i, IF i % 2 = 1 THEN "user" ELSE "assistant",
              IF variant = "manual" THEN PlainShape
              ELSE [parts |-> Some(<<TextPart("a")>>), content |-> None],
              IF variant = "manual" THEN Some(i) ELSE None)] :
        n \in 0..MaxLen }

\* one more invocation than Init allows, and as many stop() calls: a send
\* and an operation, or two operations, fit in one behaviour
ChatInit ==
    /\ strategy \in {"manual", "delegated"}
    /\ Mounted(ChatLogs(strategy), MaxOps + 1)

ChatTexts == {"X"}

ChatNext ==
    \/ \E id \in MessageIds, text \in ChatTexts : ManualEdit(id, text)
    \/ \E id \in MessageIds : ManualReloadFrom(id)
    \/ \E o \in 1..Len(ops) : ManualDeleteResolved(o)
    \/ \E o \in 1..Len(ops) : ManualDeleteRejected(o)
    \/ \E id \in MessageIds, text \in ChatTexts : DelegatedEdit(id, text)
    \/ \E id \in MessageIds : DelegatedReloadFrom(id)
    \/ StreamDelta
    \/ StreamFinish
    \/ TransportFails
    \/ \E query \in Queries : QuerySelect(query)
    \/ Stop
    \/ LateDelta

ChatSpec == ChatInit /\ [][ChatNext]_vars

\* the chat as a UI drives it that disables its controls while isLoading:
\* edit, reload and send are invoked only while isLoading is false
GatedNext ==
    \/ ~isLoading /\ \E id \in MessageIds, text \in ChatTexts : ManualEdit(id, text)
    \/ ~isLoading /\ \E id \in MessageIds : ManualReloadFrom(id)
    \/ \E o \in 1..Len(ops) : ManualDeleteResolved(o)
    \/ \E o \in 1..Len(ops) : ManualDeleteRejected(o)
    \/ ~isLoading /\ \E id \in MessageIds, text \in ChatTexts : DelegatedEdit(id, text)
    \/ ~isLoading /\ \E id \in MessageIds : DelegatedReloadFrom(id)
    \/ StreamDelta
    \/ StreamFinish
    \/ TransportFails
    \/ ~isLoading /\ \E query \in Queries : QuerySelect(query)
    \/ Stop
    \/ LateDelta

GatedSpec == ChatInit /\ [][GatedNext]_vars

\* --------------------------------------------- handlers of an earlier render
\* the render of the current log stays on screen while the log moves on:
\* from here to the next render its handlers read the log of now
RenderLags ==
    /\ strategy = "manual"
    /\ seen = None
    /\ Len(ops) < budget
    /\ seen' = Some(messages)
    /\ UNCHANGED <<strategy, messages, status, ops, toasts, deleteCalls,
                   transportCalls, nextId, clock, store, stops, abandoned,
                   budget, dbParts, insertResult, accessed, input,
                   uploadedFiles>>

\* Chat renders again: its handlers close over the current log
Render ==
    /\ seen # None
    /\ seen' = None
    /\ UNCHANGED <<strategy, messages, status, ops, toasts, deleteCalls,
                   transportCalls, nextId, clock, store, stops, abandoned,
                   budget, dbParts, insertResult, accessed, input,
                   uploadedFiles>>

\* the logs the race is mounted on: those of ChatLogs and one message more,
\* so that the second user message has a follower
RaceLogs ==
    { [i \in 1..n |->
          SavedMessage(i, IF i % 2 = 1 THEN "user" ELSE "assistant",
                       PlainShape, Some(i))] : n \in 0..(MaxLen + 1) }

RaceInit ==
    /\ strategy = "manual"
    /\ Mounted(RaceLogs, MaxOps + 1)

\* the manual chat whose reload control may belong to a render the log has
\* moved on from: handleReloadFrom then reads the log of that render; edit
\* is invoked from a render of the current log
RaceNext ==
    \/ RenderLags
    \/ Render
    \/ \E snapshot \in seen :
          \E id \in Ids(snapshot) \cup {0} : handleReloadFrom(snapshot, id)
    \/ seen = None /\ \E id \in MessageIds : ManualReloadFrom(id)
    \/ seen = None /\ \E id \in MessageIds, text \in ChatTexts : ManualEdit(id, text)
    \/ \E o \in 1..Len(ops) : ManualDeleteResolved(o)
    \/ \E o \in 1..Len(ops) : ManualDeleteRejected(o)
    \/ StreamDelta
    \/ StreamFinish
    \/ \E query \in Queries : QuerySelect(query)

RaceSpec == RaceInit /\ [][RaceNext]_vars

\* ------------------------------------------- the input box (delegated variant)
\* the white space String.prototype.trim() strips, as far as InputTexts has it
Whitespace == {" ", "\n", "\t"}

RECURSIVE trimStart(_)
trimStart(chars) ==
    IF chars # <<>> /\ Head(chars) \in Whitespace
    THEN trimStart(Tail(chars)) ELSE chars

RECURSIVE trimEnd(_)
trimEnd(chars) ==
    IF chars # <<>> /\ Last(chars) \in Whitespace
    THEN trimEnd(SubSeq(chars, 1, Len(chars) - 1)) ELSE chars

\* input.trim()
trim(chars) == trimEnd(trimStart(chars))

RECURSIVE StringOf(_)
\* the string of a sequence of characters
StringOf(chars) ==
    IF chars = <<>> THEN "" ELSE Head(chars) \o StringOf(Tail(chars))

\* what the user may have typed
InputTexts == {<<>>, <<"\n", " ">>, <<" ", "a", "\n">>}

UploadStatuses == {"uploading", "uploaded", "error"}

\* the k-th attachment of the input box: url and key are there once the
\* upload has finished
UploadedFile(k, fileStatus) ==
    [name |-> "f" \o Digit(k),
     status |-> fileStatus,
     url |-> IF fileStatus = "uploaded" THEN Some("blob:" \o Digit(k)) ELSE None,
     key |-> IF fileStatus = "uploaded" THEN Some("key" \o Digit(k)) ELSE None,
     type |-> "image/png"]

\* the attachment lists the upload handling may set: a message has room for
\* a text part and MaxParts - 1 file parts
FileLists ==
    UNION { { [k \in 1..n |-> UploadedFile(k, statuses[k])] :
              statuses \in [1..n -> UploadStatuses] } : n \in 0..(MaxParts - 1) }

uploadedOfAnyStatus(files) == files

\* uploadedFiles.filter(f => f.status === 'uploaded')
uploaded(files) == SelectSeq(files, LAMBDA f : f.status = "uploaded")

\* the file part onSubmit pushes for an uploaded attachment
FilePartOf(f) ==
    [type |-> "file", url |-> f.url, name |-> f.name, key |-> f.key,
     mediaType |-> f.type]

\* handleInputChange(e): setInput(e.target.value)
handleInputChange(value) ==
    /\ strategy = "delegated"
    /\ Len(ops) < budget
    /\ value # input
    /\ input' = value
    /\ UNCHANGED <<strategy, messages, status, ops, toasts, deleteCalls,
                   transportCalls, nextId, clock, store, stops, abandoned,
                   budget, dbParts, insertResult, accessed, seen,
                   uploadedFiles>>

\* setUploadedFiles(files), as the drop zone and the panel call it
SetUploadedFiles(files) ==
    /\ strategy = "delegated"
    /\ Len(ops) < budget
    /\ files # uploadedFiles
    /\ uploadedFiles' = files
    /\ UNCHANGED <<strategy, messages, status, ops, toasts, deleteCalls,
                   transportCalls, nextId, clock, store, stops, abandoned,
                   budget, dbParts, insertResult, accessed, seen, input>>

\* onSubmit(e) of the delegated variant; sendMessage({ role: 'user', parts })
\* adds the message to the log under a new id and requests an answer
onSubmit ==
    /\ strategy = "delegated"
    /\ Len(ops) < budget
    /\ LET attached == uploaded(uploadedFiles)
       IN IF trim(input) # <<>> \/ Len(attached) > 0
          THEN LET parts ==
                       (IF trim(input) # <<>>
                        THEN <<TextPart(StringOf(input))>> ELSE <<>>)
                       \o [k \in 1..Len(attached) |-> FilePartOf(attached[k])]
                   message == [id |-> generateUUID, role |-> "user",
                               content |-> None, parts |-> Some(parts),
                               createdAt |-> None]
                   log == Append(messages, message)
               IN /\ messages' = log
                  /\ transportCalls' = Append(transportCalls,
                         [op |-> Len(ops) + 1,
                          body |-> prepareSendMessagesRequest(log,
                                       "submit-user-message", None)])
                  /\ status' = "submitted"
                  /\ ops' = Append(Settled(ops),
                                   Op("submit", 0, StringOf(input), generateUUID,
                                      "done"))
                  /\ nextId' = nextId + 1
                  /\ clock' = clock + 1
                  /\ input' = <<>>
                  /\ uploadedFiles' = <<>>
          ELSE /\ ops' = Append(ops, Op("submit", 0, StringOf(input), 0,
                                        "aborted"))
               /\ UNCHANGED <<messages, transportCalls, status, nextId, clock,
                              input, uploadedFiles>>
    /\ UNCHANGED <<strategy, store, stops, abandoned, budget, dbParts,
                   insertResult, accessed, seen, toasts, deleteCalls>>

\* the input box changes as long as a submit is still to come
SubmitInit ==
    /\ strategy = "delegated"
    /\ Mounted(ChatLogs("delegated"), MaxOps)

SubmitNext ==
    \/ \E value \in InputTexts : handleInputChange(value)
    \/ \E files \in FileLists : SetUploadedFiles(files)
    \/ onSubmit

SubmitSpec == SubmitInit /\ [][SubmitNext]_vars

\* ---------------------------------------------- the parts table (schema.ts)
\* a column without a value holds None (NULL)
ToolStates ==
    {"input-streaming", "input-available", "output-available", "output-error"}

\* type LIKE 'tool-%': the type is 'tool-' followed by anything
ToolSuffixes == {"", "invocation"}
LikeTool(type) == \E suffix \in ToolSuffixes : type = "tool-" \o suffix

PartTypes == {"text", "reasoning", "file", "tool", "tool-invocation"}

\* the rows handed to an insert: every type, every column with or without a
\* value, tool_state also with a value outside the four the check lists
PartRows ==
    [ type : PartTypes,
      text_text : {None, Some("t")},
      reasoning_text : {None, Some("r")},
      file_mediaType : {None, Some("image/png")},
      file_filename : {None, Some("f.png")},
      file_url : {None, Some("blob:f")},
      tool_toolCallId : {None, Some("call-1")},
      tool_state : {None, Some("done")} \cup {Some(st) : st \in ToolStates} ]

\* (type != 'text' OR text_text IS NOT NULL)
textTextRequired(row) == row.type # "text" \/ row.text_text # None

\* (type != 'reasoning' OR reasoning_text IS NOT NULL)
reasoningTextRequired(row) == row.type # "reasoning" \/ row.reasoning_text # None

fileFieldsRequiredUrlOnly(row) == row.type # "file" \/ row.file_url # None

\* (type != 'file' OR (file_media_type IS NOT NULL AND file_filename IS NOT
\*  NULL AND file_url IS NOT NULL))
fileFieldsRequired(row) ==
    \/ row.type # "file"
    \/ (row.file_mediaType # None /\ row.file_filename # None
          /\ row.file_url # None)

\* (tool_state IS NULL OR tool_state IN ('input-streaming', ...))
toolStateValid(row) == row.tool_state = None \/ The(row.tool_state) \in ToolStates

\* (type NOT LIKE 'tool-%' OR (tool_tool_call_id IS NOT NULL AND tool_state
\*  IS NOT NULL))
toolFieldsRequired(row) ==
    \/ ~LikeTool(row.type)
    \/ (row.tool_toolCallId # None /\ row.tool_state # None)

\* an insert into parts: the row is stored when every check constraint of
\* the table holds for it; otherwise the statement fails and the table is
\* as it was
Insert(row) ==
    /\ Cardinality(dbParts) < MaxRows
    /\ IF /\ textTextRequired(row)
          /\ reasoningTextRequired(row)
          /\ fileFieldsRequired(row)
          /\ toolStateValid(row)
          /\ toolFieldsRequired(row)
       THEN /\ dbParts' = dbParts \cup {row}
            /\ insertResult' = "accepted"
       ELSE /\ dbParts' = dbParts
            /\ insertResult' = "rejected"
    /\ UNCHANGED <<strategy, messages, status, ops, toasts, deleteCalls,
                   transportCalls, nextId, clock, store, stops, abandoned,
                   budget, accessed, seen, input, uploadedFiles>>

\* an empty parts table (beside a chat that makes no step)
PartsInit ==
    /\ strategy = "delegated"
    /\ Mounted({<<>>}, 0)

PartsNext == \E row \in PartRows : Insert(row)

PartsSpec == PartsInit /\ [][PartsNext]_vars

\* ------------------------------------------------- calls of getTextFromParts
ReasoningPart == [type |-> "reasoning", text |-> "t"]

PartKinds == {TextPart("a"), TextPart("b"), TextPart(""), FilePart, ReasoningPart}

\* the arguments of getTextFromParts(parts?): undefined, or an array of up
\* to MaxParts parts
PartsArguments ==
    {None} \cup {Some(ps) : ps \in UNION {[1..n -> PartKinds] : n \in 0..MaxParts}}

\* one call of getTextFromParts
GetText(parts) ==
    /\ accessed = None
    /\ accessed' = Some([parts |-> parts, text |-> getTextFromParts(parts)])
    /\ UNCHANGED <<strategy, messages, status, ops, toasts, deleteCalls,
                   transportCalls, nextId, clock, store, stops, abandoned,
                   budget, dbParts, insertResult, seen, input,
                   uploadedFiles>>

TextNext == \E parts \in PartsArguments : GetText(parts)

TextSpec == PartsInit /\ [][TextNext]_vars

\* =================================================================== claims
\* 1-based position of the message carrying id in log
IndexOf(log, id) == FindIndex(log, id) + 1

\* the step in which a handler of the given variant and kind is invoked
Invoked(variant, kind) ==
    /\ strategy = variant
    /\ Len(ops') = Len(ops) + 1
    /\ Last(ops').kind = kind

UserIndexes(log) == {i \in 1..Len(log) : log[i].role = "user"}

\* the k-th user message's position in log
NthUser(log, k) ==
    CHOOSE i \in UserIndexes(log) :
        Cardinality({j \in UserIndexes(log) : j <= i}) = k

\* the places (section, position) at which message m is shown as an
\* assistant message
ShownAt(secs, m) ==
    {<<k, p>> \in (1..Len(secs)) \X (1..Len(messages)) :
        p <= Len(secs[k].assistantMessages) /\ secs[k].assistantMessages[p] = m}

\* C1: the section builder returns one section per user message, in log
\* order, keyed by that message's id; every assistant message after some user
\* message is in exactly one section, the one of the nearest preceding user
\* message, in log order; any other message is in no section.
C1_SectionsPartition ==
    LET U == UserIndexes(messages)
        n == Cardinality(U)
    IN /\ Len(sections) = n
       /\ \A k \in 1..n :
            LET u == NthUser(messages, k)
                next == IF k < n THEN NthUser(messages, k + 1)
                        ELSE Len(messages) + 1
            IN /\ sections[k].id = messages[u].id
               /\ sections[k].userMessage = messages[u]
               /\ sections[k].assistantMessages =
                      SelectSeq(SubSeq(messages, u + 1, next - 1),
                                LAMBDA m : m.role = "assistant")
       /\ \A j \in 1..Len(messages) :
            LET leaders == {u \in U : u < j}
            IN IF messages[j].role = "assistant" /\ leaders # {}
               THEN \E k \in 1..n :
                       /\ NthUser(messages, k) \in leaders
                       /\ \A u \in leaders : u <= NthUser(messages, k)
                       /\ \E p \in 1..Len(sections[k].assistantMessages) :
                              ShownAt(sections, messages[j]) = {<<k, p>>}
               ELSE /\ ShownAt(sections, messages[j]) = {}
                    /\ messages[j].role # "user" =>
                         \A k \in 1..n : sections[k].userMessage # messages[j]

\* after a reload-from, the log is a system message that no section shows,
\* the resent user message and the streamed answer shown in its section
C1_Witness ==
    /\ ops # <<>>
    /\ Len(messages) = 3
    /\ messages[1].role = "system"
    /\ messages[2].id \notin 1..MaxLen
    /\ Len(sections) = 1
    /\ sections[1].id = messages[2].id
    /\ sections[1].assistantMessages = <<messages[3]>>

\* C2: manual edit-and-regenerate on a log containing the target leaves the
\* messages before the target, followed by one new user message with a fresh
\* id and exactly one text part carrying newText, and issues a truncation
\* request with the conversation id and the ISO form of the target's
\* createdAt as pivot.
C2_ManualEditSplice ==
    [][ (Invoked("manual", "edit") /\ Last(ops').arg \in Ids(messages)) =>
          LET i == IndexOf(messages, Last(ops').arg)
          IN /\ Len(messages') = i
             /\ SubSeq(messages', 1, i - 1) = SubSeq(messages, 1, i - 1)
             /\ messages'[i].role = "user"
             /\ messages'[i].parts = Some(<<TextPart(Last(ops').text)>>)
             /\ messages'[i].id \notin Ids(messages)
             /\ Len(deleteCalls') = Len(deleteCalls) + 1
             /\ Last(deleteCalls').chatId = ChatId
             /\ messages[i].createdAt # None =>
                  Last(deleteCalls').pivot = toISOString(The(messages[i].createdAt))
      ]_vars

\* an edit of a message that has messages before and after it has been applied
C2_Witness ==
    /\ strategy = "manual"
    /\ \E o \in 1..Len(ops) :
          /\ ops[o].kind = "edit"
          /\ ops[o].pc = "awaitDelete"
          /\ ops[o].arg = 2
          /\ Len(messages) = 2
          /\ Last(messages).id = ops[o].newId
    /\ Len(deleteCalls) = 1

\* C3: in manual edit-and-regenerate the log already shows the edit when the
\* truncation request is issued, and the reload request is issued only in the
\* step in which the truncation request resolves.
C3_EditSequencing ==
    [][ /\ (strategy = "manual" /\ Len(deleteCalls') > Len(deleteCalls)
              /\ Last(ops').kind = "edit") =>
             /\ Len(ops') = Len(ops) + 1
             /\ Last(deleteCalls').op = Len(ops')
             /\ Last(messages').id = Last(ops').newId
             /\ Last(messages').parts = Some(<<TextPart(Last(ops').text)>>)
             /\ transportCalls' = transportCalls
        /\ (strategy = "manual" /\ Len(transportCalls') > Len(transportCalls)
              /\ ops[Last(transportCalls').op].kind = "edit") =>
             LET o == Last(transportCalls').op
             IN /\ ops[o].pc = "awaitDelete"
                /\ \E k \in 1..Len(deleteCalls) :
                      /\ deleteCalls[k].op = o
                      /\ deleteCalls[k].state = "pending"
                      /\ deleteCalls'[k].state = "resolved"
      ]_vars

\* a manual edit whose reload request went out
C3_Witness ==
    /\ strategy = "manual"
    /\ \E o \in 1..Len(ops) :
          /\ ops[o].kind = "edit"
          /\ ops[o].pc = "awaitTransport"
          /\ \E k \in 1..Len(transportCalls) : transportCalls[k].op = o

\* C4: manual edit-and-regenerate with an id no message carries aborts: the
\* log is unchanged, one error is shown, no truncation request and no
\* transport request is issued, then or later.
C4_ManualEditAbsent ==
    [][ /\ (Invoked("manual", "edit") /\ Last(ops').arg \notin Ids(messages)) =>
             /\ messages' = messages
             /\ Len(toasts') = Len(toasts) + 1
             /\ deleteCalls' = deleteCalls
             /\ transportCalls' = transportCalls
             /\ Last(ops').pc = "aborted"
        /\ \A o \in 1..Len(ops) :
             ops[o].pc = "aborted" =>
               /\ ops'[o] = ops[o]
               /\ \A k \in 1..Len(deleteCalls') : deleteCalls'[k].op # o
               /\ \A k \in 1..Len(transportCalls') : transportCalls'[k].op # o
      ]_vars

\* a manual edit of an absent id, on a log that has messages
C4_Witness ==
    /\ strategy = "manual"
    /\ messages # <<>>
    /\ \E o \in 1..Len(ops) :
          ops[o].kind = "edit" /\ ops[o].pc = "aborted"
             /\ ops[o].arg \notin Ids(messages)

\* C5: delegated edit-and-regenerate with an id no message carries aborts:
\* the log is unchanged, one error is shown and no regenerate request is
\* issued.
C5_DelegatedEditAbsent ==
    [][ (Invoked("delegated", "edit") /\ Last(ops').arg \notin Ids(messages)) =>
          /\ messages' = messages
          /\ Len(toasts') = Len(toasts) + 1
          /\ transportCalls' = transportCalls
          /\ status' = status
          /\ Last(ops').pc = "failed"
      ]_vars

\* a delegated edit of an absent id, on a log that has messages
C5_Witness ==
    /\ strategy = "delegated"
    /\ messages # <<>>
    /\ \E o \in 1..Len(ops) :
          ops[o].kind = "edit" /\ ops[o].pc = "failed"
             /\ ops[o].arg \notin Ids(messages)

\* the follower id is absent, the first message, or preceded by a message
\* that is not a user message
BadFollower(log, id) ==
    \/ id \notin Ids(log)
    \/ IndexOf(log, id) = 1
    \/ log[IndexOf(log, id) - 1].role # "user"

\* C6: manual reload-from fails, leaving the log unchanged and issuing neither
\* a truncation nor a transport request, when the follower is absent, first,
\* or not preceded by a user message.
C6_ManualReloadInvalid ==
    [][ /\ (Invoked("manual", "reload") /\ BadFollower(messages, Last(ops').arg)) =>
             /\ messages' = messages
             /\ Len(toasts') = Len(toasts) + 1
             /\ deleteCalls' = deleteCalls
             /\ transportCalls' = transportCalls
             /\ Last(ops').pc = "aborted"
        /\ \A o \in 1..Len(ops) :
             (ops[o].kind = "reload" /\ ops[o].pc = "aborted") =>
               /\ ops'[o].pc = "aborted"
               /\ \A k \in 1..Len(deleteCalls') : deleteCalls'[k].op # o
               /\ \A k \in 1..Len(transportCalls') : transportCalls'[k].op # o
      ]_vars

\* a manual reload-from whose follower is present, not first, and preceded by
\* a message that is not a user message
C6_Witness ==
    /\ strategy = "manual"
    /\ \E o \in 1..Len(ops) :
          /\ ops[o].kind = "reload"
          /\ ops[o].pc = "aborted"
          /\ ops[o].arg \in Ids(messages)
          /\ IndexOf(messages, ops[o].arg) > 1
          /\ messages[IndexOf(messages, ops[o].arg) - 1].role # "user"

\* C7: delegated reload-from fails, issuing no regenerate request and leaving
\* the log unchanged, when the follower is absent, first, or not preceded by
\* a user message.
C7_DelegatedReloadInvalid ==
    [][ (Invoked("delegated", "reload")
           /\ BadFollower(messages, Last(ops').arg)) =>
          /\ messages' = messages
          /\ transportCalls' = transportCalls
          /\ Last(ops').pc = "failed"
      ]_vars

\* C8: manual reload-from on a follower at 0-based index i >= 1 preceded by a
\* user message leaves the messages at indices 0..i-2 followed by one new user
\* message with a fresh id, issues a truncation request whose pivot is the ISO
\* form of the follower's createdAt, and issues its reload request only in
\* the step in which that truncation request resolves.
C8_ManualReloadSplice ==
    [][ /\ (Invoked("manual", "reload")
              /\ ~BadFollower(messages, Last(ops').arg)) =>
             LET f == IndexOf(messages, Last(ops').arg)
             IN /\ Len(messages') = f - 1
                /\ SubSeq(messages', 1, f - 2) = SubSeq(messages, 1, f - 2)
                /\ messages'[f - 1].role = "user"
                /\ messages'[f - 1].id \notin Ids(messages)
                /\ Len(deleteCalls') = Len(deleteCalls) + 1
                /\ Last(deleteCalls').chatId = ChatId
                /\ Last(deleteCalls').op = Len(ops')
                /\ messages[f].createdAt # None =>
                     Last(deleteCalls').pivot =
                         toISOString(The(messages[f].createdAt))
                /\ transportCalls' = transportCalls
        /\ (strategy = "manual" /\ Len(transportCalls') > Len(transportCalls)
              /\ ops[Last(transportCalls').op].kind = "reload") =>
             LET o == Last(transportCalls').op
             IN /\ ops[o].pc = "awaitDelete"
                /\ \E k \in 1..Len(deleteCalls) :
                      /\ deleteCalls[k].op = o
                      /\ deleteCalls[k].state = "pending"
                      /\ deleteCalls'[k].state = "resolved"
      ]_vars

\* a manual reload-from the third message went through to its reload request
C8_Witness ==
    /\ strategy = "manual"
    /\ \E o \in 1..Len(ops) :
          /\ ops[o].kind = "reload"
          /\ ops[o].arg = 3
          /\ ops[o].pc = "awaitTransport"
          /\ Len(messages) = 2
          /\ messages[2].id = ops[o].newId
          /\ \E k \in 1..Len(transportCalls) : transportCalls[k].op = o

\* the bodies of the text parts, one after the other
RECURSIVE Concat(_)
Concat(ps) == IF ps = <<>> THEN "" ELSE Head(ps).text \o Concat(Tail(ps))

TextParts(m) == IF m.parts = None THEN <<>> ELSE Filter(The(m.parts), "text")

\* C9: the user message resent by manual reload-from is content-equal to the
\* original: when the original has text parts with text in them, the text
\* accessor returns the same string for the resent parts as for the original
\* parts; when the original's parts hold no text, the resent text is the plain
\* content field, or the empty string when that is absent.
C9_ResentTextEqual ==
    [][ (Invoked("manual", "reload") /\ ~BadFollower(messages, Last(ops').arg)) =>
          LET f == IndexOf(messages, Last(ops').arg)
              original == messages[f - 1]
              resent == messages'[f - 1]
          IN /\ (TextParts(original) # <<>> /\ Concat(TextParts(original)) # "") =>
                  getTextFromParts(resent.parts) = getTextFromParts(original.parts)
             /\ Concat(TextParts(original)) = "" =>
                  getTextFromParts(resent.parts) =
                      IF original.content = None THEN "" ELSE The(original.content)
      ]_vars

\* C10: when the truncation request of a manual operation is rejected, the
\* log is left as it is (with the new user message as its tail when no other
\* operation was invoked), one error is shown and the operation issues no
\* transport request, then or later; when the transport fails after the
\* truncation resolved, the log is left as it is (the new user message still
\* in it) and one error is shown.
C10_FailuresKeepEdit ==
    [][ /\ \A o \in 1..Len(ops) :
             (strategy = "manual" /\ ops[o].pc = "awaitDelete"
                /\ \E k \in 1..Len(deleteCalls') :
                      deleteCalls'[k].op = o /\ deleteCalls'[k].state = "rejected") =>
               /\ messages' = messages
               /\ Len(ops) = 1 => Last(messages').id = ops[o].newId
               /\ Len(toasts') = Len(toasts) + 1
               /\ transportCalls' = transportCalls
               /\ ops'[o].pc = "failed"
        /\ \A o \in 1..Len(ops) :
             (strategy = "manual" /\ ops[o].pc = "failed") =>
               /\ ops'[o].pc = "failed"
               /\ \A k \in 1..Len(transportCalls') : transportCalls'[k].op # o
        /\ (strategy = "manual" /\ isLoading /\ status' = "error") =>
               /\ messages' = messages
               /\ Len(ops) = 1 => ops[1].newId \in Ids(messages')
               /\ Len(toasts') = Len(toasts) + 1
               /\ transportCalls' = transportCalls
      ]_vars

\* a manual reload-from whose truncation request was rejected: the resent
\* message is still the log's tail and the failure was shown
C10_Witness ==
    /\ strategy = "manual"
    /\ \E o \in 1..Len(ops) :
          /\ ops[o].kind = "reload"
          /\ ops[o].pc = "failed"
          /\ Last(messages).id = ops[o].newId
          /\ \E k \in 1..Len(deleteCalls) :
                deleteCalls[k].op = o /\ deleteCalls[k].state = "rejected"
    /\ toasts = <<CatchToast("reload")>>
    /\ transportCalls = <<>>
\* C11: the local step of the delegated edit on a present id changes the
\* parts of that one message to exactly one text part holding the new text:
\* the log keeps its length and order, the edited message keeps its id, its
\* role and its other fields, every other message is unchanged; the log the
\* handler leaves behind is a prefix of that locally edited log.
C11_DelegatedEditLocalStep ==
    [][ (Invoked("delegated", "edit") /\ Last(ops').arg \in Ids(messages)) =>
          LET editedMessageId == Last(ops').arg
              newContentText == Last(ops').text
              i == IndexOf(messages, editedMessageId)
              updatedMessages ==
                  UpdateInPlace(messages, editedMessageId, newContentText)
          IN /\ Len(updatedMessages) = Len(messages)
             /\ \A j \in 1..Len(messages) :
                   j # i => updatedMessages[j] = messages[j]
             /\ updatedMessages[i].id = editedMessageId
             /\ updatedMessages[i].role = messages[i].role
             /\ updatedMessages[i].content = messages[i].content
             /\ updatedMessages[i].createdAt = messages[i].createdAt
             /\ updatedMessages[i].parts = Some(<<TextPart(newContentText)>>)
             /\ Len(messages') <= Len(updatedMessages)
             /\ \A j \in 1..Len(messages') : messages'[j] = updatedMessages[j]
      ]_vars

\* a delegated edit of a user message with the text "X": the log the handler
\* leaves holds two messages, the edited one carrying the one text part "X"
C11_Witness ==
    /\ strategy = "delegated"
    /\ Len(ops) = 1
    /\ ops[1].kind = "edit"
    /\ ops[1].pc = "awaitTransport"
    /\ ops[1].text = "X"
    /\ ops[1].arg \in Ids(messages)
    /\ messages[IndexOf(messages, ops[1].arg)].parts = Some(<<TextPart("X")>>)
    /\ messages[IndexOf(messages, ops[1].arg)].role = "user"
    /\ Len(messages) = 2

\* the triggers the transport of the delegated variant is called with
Triggers ==
    {"regenerate-assistant-message", "submit-user-message", "submit-tool-result"}

\* what C12 asks of the request body built for log, trigger and messageId
RequestAsClaimed(body, log, trigger, messageId) ==
    IF trigger = "regenerate-assistant-message"
    THEN /\ body.trigger = "regenerate-assistant-message"
         /\ body.chatId = ChatId
         /\ body.messageId = Some(messageId)
         /\ body.message # None <=>
                \E i \in 1..Len(log) : log[i].id = messageId /\ log[i].role = "user"
         /\ body.message # None =>
                body.message = Some(log[IndexOf(log, messageId)])
    ELSE /\ body.trigger = "submit-user-message"
         /\ body.chatId = ChatId
         /\ body.message = IF log = <<>> THEN None ELSE Some(Last(log))

\* C12: for every log and target messageId, the request built for trigger
\* regenerate-assistant-message carries that trigger, the conversation id and
\* the messageId, and a message body if and only if the log holds a message
\* with that id whose role is user, in which case the body is that message;
\* the request built for any other trigger carries trigger
\* submit-user-message, the conversation id and exactly the last message of
\* the log. This holds of the log before and after every step that changes
\* it, for each of its ids and for an id no message carries; and every
\* request the delegated variant
\* issues is built that way from the log the step leaves: regenerate for an
\* edit or reload, submit for a send.
C12_RequestBodies ==
    [][ /\ \A log \in IF messages' # messages THEN {messages, messages'} ELSE {} :
              \A messageId \in Ids(log) \cup {0}, trigger \in Triggers :
                  RequestAsClaimed(
                      prepareSendMessagesRequest(log, trigger, Some(messageId)),
                      log, trigger, messageId)
        /\ (strategy = "delegated"
             /\ Len(transportCalls') = Len(transportCalls) + 1) =>
            LET body == Last(transportCalls').body
                sent == Last(ops').kind = "send"
            IN /\ body.trigger = IF sent THEN "submit-user-message"
                                 ELSE "regenerate-assistant-message"
               /\ sent => body.message = Some(Last(messages'))
               /\ ~sent => RequestAsClaimed(body, messages', body.trigger,
                                            Last(ops').arg)
      ]_vars

\* the delegated variant sent a query and then edited that user message: the
\* first request is a submit carrying the sent message, the second a
\* regenerate carrying the edited user message
C12_Witness ==
    /\ strategy = "delegated"
    /\ Len(transportCalls) = 2
    /\ transportCalls[1].body.trigger = "submit-user-message"
    /\ transportCalls[1].body.message # None
    /\ The(transportCalls[1].body.message).id = ops[1].newId
    /\ transportCalls[2].body.trigger = "regenerate-assistant-message"
    /\ transportCalls[2].body.messageId = Some(ops[1].newId)
    /\ transportCalls[2].body.message = Some(Last(messages))
    /\ Last(messages).parts = Some(<<TextPart("X")>>)

\* C13 (as the code has it): the request the explicit reload call of a manual
\* edit-and-regenerate or reload-from issues carries the conversation id and
\* one message, the last message of the remaining local log.
C13_ManualReloadSendsLast ==
    [][ (strategy = "manual"
         /\ Len(transportCalls') = Len(transportCalls) + 1
         /\ ops'[Last(transportCalls').op].kind \in {"edit", "reload"}) =>
          /\ Last(transportCalls').body.id = ChatId
          /\ Last(transportCalls').body.message = Some(Last(messages'))
      ]_vars

\* a manual edit whose truncation resolved: the remaining log holds two
\* messages and the request carries the second one only
C13_Witness ==
    /\ strategy = "manual"
    /\ Len(ops) = 1
    /\ ops[1].kind = "edit"
    /\ ops[1].pc = "awaitTransport"
    /\ Len(messages) = 2
    /\ Len(transportCalls) = 1
    /\ transportCalls[1].body.message = Some(messages[2])
    /\ messages[1] \notin transportCalls[1].body.message

\* C13 as stated: the request of the explicit reload call carries every
\* message of the remaining local log.
C13_ManualReloadSendsLog ==
    [][ (strategy = "manual"
         /\ Len(transportCalls') = Len(transportCalls) + 1
         /\ ops'[Last(transportCalls').op].kind \in {"edit", "reload"}) =>
          \A j \in 1..Len(messages') :
              messages'[j] \in Last(transportCalls').body.message
      ]_vars

\* the status as the transport state machine names it: ready and error are
\* both idle (error: idle with an error recorded)
Phase(s) == IF s \in {"submitted", "streaming"} THEN s ELSE "idle"

\* C14 (its safety half): the status changes only along idle -> submitted,
\* submitted -> streaming, streaming -> idle and submitted -> idle; no other
\* transition (idle -> streaming, streaming -> submitted) occurs.
C14_StatusTransitions ==
    [][ Phase(status') # Phase(status) =>
          <<Phase(status), Phase(status')>> \in
              { <<"idle", "submitted">>, <<"submitted", "streaming">>,
                <<"streaming", "idle">>, <<"submitted", "idle">> }
      ]_vars

\* C15: stop() called in any status leaves the status idle and records no
\* error; called without an active exchange (again, or from idle) it changes
\* neither the status nor the log; a delta of the abandoned exchange that
\* arrives afterwards changes neither the log nor the status.
C15_StopIdempotent ==
    [][ /\ stops' = stops + 1 =>
             /\ ~isLoading'
             /\ isLoading => status' = "ready"
             /\ ~isLoading => status' = status
             /\ toasts' = toasts
             /\ messages' = messages
        /\ (abandoned /\ ~abandoned') =>
             /\ messages' = messages
             /\ status' = status
             /\ toasts' = toasts
      ]_vars

\* a query was sent, stop() was called twice and the abandoned deltas have
\* arrived: the status is ready, no error was shown and the log ends with
\* the sent message, without an answer
C15_Witness ==
    /\ Len(ops) = 1
    /\ ops[1].kind = "send"
    /\ stops = 2
    /\ ~abandoned
    /\ status = "ready"
    /\ toasts = <<>>
    /\ Last(messages).id = ops[1].newId

\* C16: stop() called while a manual edit or reload awaits its truncation
\* request cuts off the transport's active exchange only: the truncation
\* request stays as it is (pending, not cancelled), its invocation still
\* awaits it, the store and the locally spliced log are unchanged; and no
\* step ever puts a record back into the store.
C16_StopKeepsTruncation ==
    [][ /\ (strategy = "manual"
             /\ stops' = stops + 1
             /\ \E o \in 1..Len(ops) : ops[o].pc = "awaitDelete") =>
               /\ deleteCalls' = deleteCalls
               /\ \A o \in 1..Len(ops) :
                     ops[o].pc = "awaitDelete" =>
                       /\ ops'[o] = ops[o]
                       /\ deleteCalls[DeleteOf(o)].state = "pending"
                       /\ ops[o].newId \in Ids(messages) =>
                             ops[o].newId \in Ids(messages')
               /\ store' = store
               /\ messages' = messages
               /\ isLoading => status' = "ready"
        /\ store' \subseteq store
      ]_vars

\* a query was sent in the manual variant, its message was edited and, with
\* the truncation request pending, stop() cut the exchange off: the request
\* is still pending, the edited message is still the log's tail
C16_Witness ==
    /\ strategy = "manual"
    /\ Len(ops) = 2
    /\ ops[1].kind = "send"
    /\ ops[2].kind = "edit"
    /\ ops[2].pc = "awaitDelete"
    /\ stops = 1
    /\ abandoned
    /\ status = "ready"
    /\ deleteCalls[1].state = "pending"
    /\ Last(messages).id = ops[2].newId

\* the invocations of edit and reload that are in flight: past their local
\* splice, with the truncation request or the transport request unsettled
InFlight == {o \in 1..Len(ops) : ops[o].pc \in {"awaitDelete", "awaitTransport"}}

\* C17: with edit and reload invoked only while isLoading is false, no two
\* of them are in flight at once.
C17_Serial == Cardinality(InFlight) <= 1

\* invocation o fails in this step: on a structural error (aborted), on a
\* rejected truncation request or a rejected regenerate call (failed)
FailsNow(o) ==
    /\ ops'[o].pc \in {"aborted", "failed"}
    /\ o <= Len(ops) => ops[o].pc \notin {"aborted", "failed"}

CallsOf(calls, o) == {k \in 1..Len(calls) : calls[k].op = o}

\* C18: a step in which an attempt of send, edit or reload fails (a
\* structural error, a rejected truncation, a failure of the transport)
\* shows exactly one notification and issues no request; a failed invocation
\* stays failed and issues no request later; no invocation ever issues a
\* second truncation request or a second transport request.
C18_OneNotification ==
    [][ /\ ((\E o \in 1..Len(ops') : FailsNow(o))
             \/ (isLoading /\ status' = "error")) =>
               /\ Len(toasts') = Len(toasts) + 1
               /\ transportCalls' = transportCalls
               /\ Len(deleteCalls') = Len(deleteCalls)
        /\ \A o \in 1..Len(ops) :
              ops[o].pc \in {"aborted", "failed"} =>
                /\ ops'[o] = ops[o]
                /\ CallsOf(transportCalls', o) = CallsOf(transportCalls, o)
                /\ CallsOf(deleteCalls', o) = CallsOf(deleteCalls, o)
        /\ \A o \in 1..Len(ops') :
              /\ Cardinality(CallsOf(transportCalls', o)) <= 1
              /\ Cardinality(CallsOf(deleteCalls', o)) <= 1
      ]_vars

\* a sent query failed on the transport and then a manual edit failed on
\* its truncation request: two failures, two notifications, one transport
\* request and one truncation request in all
C18_Witness ==
    /\ strategy = "manual"
    /\ Len(ops) = 2
    /\ ops[1].kind = "send"
    /\ ops[2].kind = "edit"
    /\ ops[2].pc = "failed"
    /\ status = "error"
    /\ toasts = <<"Error in chat", "Error processing edited message">>
    /\ Len(transportCalls) = 1
    /\ Len(deleteCalls) = 1
    /\ deleteCalls[1].state = "rejected"

\* what C19 asks of a stored part record
GroupConstraints(row) ==
    /\ row.type = "text" => row.text_text # None
    /\ row.type = "reasoning" => row.reasoning_text # None
    /\ row.type = "file" =>
          (row.file_mediaType # None /\ row.file_filename # None
             /\ row.file_url # None)
    /\ row.type = "tool-invocation" =>
          (row.tool_toolCallId # None /\ row.tool_state # None)
    /\ \A st \in row.tool_state : st \in ToolStates

\* C19: every part record the table holds satisfies the group constraints
\* of its type; an insert that is rejected leaves the table unchanged, and
\* the table changes only by one accepted record that satisfies them.
C19_PartsConstraints ==
    [][ /\ \A row \in dbParts' : GroupConstraints(row)
        /\ insertResult' = "rejected" => dbParts' = dbParts
        /\ insertResult' = "accepted" =>
              \E row \in dbParts' : dbParts' = dbParts \cup {row}
      ]_vars

\* a file part with media type, filename and url was stored
C19_Witness ==
    /\ insertResult = "accepted"
    /\ \E row \in dbParts :
          /\ row.type = "file"
          /\ row.file_mediaType # None
          /\ row.file_filename # None
          /\ row.file_url # None

RECURSIVE JoinedUpTo(_, _)
\* the bodies of the first k of the text parts, each after the first
\* preceded by one space
JoinedUpTo(texts, k) ==
    IF k = 0 THEN ""
    ELSE IF k = 1 THEN texts[1].text
    ELSE JoinedUpTo(texts, k - 1) \o " " \o texts[k].text

\* C20: getTextFromParts returns "" for absent parts, for an empty array
\* and for parts with no text-typed entry; otherwise the bodies of exactly
\* the text-typed parts, in their order, joined by one space.
C20_TextAccessorTotal ==
    \A call \in accessed :
        LET texts == IF call.parts = None THEN <<>>
                     ELSE SelectSeq(The(call.parts), LAMBDA part : part.type = "text")
        IN /\ texts = <<>> => call.text = ""
           /\ texts # <<>> => call.text = JoinedUpTo(texts, Len(texts))

\* a call on a text part, a reasoning part and another text part
C20_Witness ==
    accessed = Some([parts |-> Some(<<TextPart("a"), ReasoningPart, TextPart("b")>>),
                     text |-> "a b"])

\* C21: a delegated edit of a user message of the log issues one regenerate
\* request whose messageId is the edited message's id and whose message body
\* is the message of that id with exactly one text part carrying the new
\* text, the body the log holds after the step: the local edit is in the
\* request, never the parts the message had before.
C21_DelegatedEditRequest ==
    [][ (/\ Invoked("delegated", "edit")
         /\ Last(ops').arg \in Ids(messages)
         /\ messages[IndexOf(messages, Last(ops').arg)].role = "user") =>
          LET editedMessageId == Last(ops').arg
              body == Last(transportCalls').body
          IN /\ Len(transportCalls') = Len(transportCalls) + 1
             /\ body.trigger = "regenerate-assistant-message"
             /\ body.messageId = Some(editedMessageId)
             /\ \E message \in body.message :
                   /\ body.message = Some(message)
                   /\ message.id = editedMessageId
                   /\ message.role = "user"
                   /\ message.parts = Some(<<TextPart(Last(ops').text)>>)
                   /\ message = messages'[IndexOf(messages', editedMessageId)]
      ]_vars

\* a delegated edit of the first message of the log, a user message, with
\* the text "X": the request carries that message with the one text part "X"
C21_Witness ==
    /\ strategy = "delegated"
    /\ Len(ops) = 1
    /\ ops[1].kind = "edit"
    /\ ops[1].arg = 1
    /\ ops[1].text = "X"
    /\ messages[1].role = "user"
    /\ Len(transportCalls) = 1
    /\ transportCalls[1].body.messageId = Some(1)
    /\ \E message \in transportCalls[1].body.message :
          message.id = 1 /\ message.parts = Some(<<TextPart("X")>>)
    /\ messages[1].parts = Some(<<TextPart("X")>>)

\* the truncation request of invocation o resolves in this step
ResolvesNow(o) ==
    /\ ops[o].pc = "awaitDelete"
    /\ deleteCalls'[DeleteOf(o)].state = "resolved"

\* C22: when the truncation request of a manual edit or reload resolves,
\* the store having held exactly the records of the log the operation was
\* invoked on (it is the first operation since mount), no record of a
\* message the operation removed from the local log remains in the store.
C22_RemovedRecordsGone ==
    [][ \A o \in 1..Len(ops) :
          (strategy = "manual" /\ Len(ops) = 1 /\ ResolvesNow(o)) =>
            \A record \in store' : record.id \in Ids(messages)
      ]_vars

\* ---------------------------------------------------------------------- C23
\* the manual reload-from that validated against `seen` now splices the log
Splices == /\ Invoked("manual", "reload")
           /\ Last(ops').pc = "awaitDelete"

\* C23: in manual reload-from, whenever the log has changed between the
\* snapshot the operation validated against and the log its splice is
\* applied to, the log right after the splice contains neither the preceding
\* user message nor any message that followed it (in the snapshot or in the
\* then-current log), and contains every message that preceded it.
C23_StaleSplice ==
    [][ \A snapshot \in seen :
          (Splices /\ snapshot # messages) =>
            LET target == IndexOf(snapshot, Last(ops').arg) - 1
                targetUserMessage == snapshot[target]
                current == IndexOf(messages, targetUserMessage.id)
            IN /\ targetUserMessage.id \notin Ids(messages')
               /\ \A j \in (target + 1)..Len(snapshot) :
                     snapshot[j].id \notin Ids(messages')
               /\ \A j \in 1..Len(messages) :
                     (current > 0 /\ j > current) =>
                        messages[j].id \notin Ids(messages')
               /\ \A j \in 1..(target - 1) :
                     \E k \in 1..Len(messages') : messages'[k] = snapshot[j]
      ]_vars

\* ---------------------------------------------------------------------- C24
\* C24: in the manual strategy the pivot of the truncation request is the
\* ISO form of the createdAt of the pivot message (the edited message of an
\* edit, the follower of a reload-from) when the message has one and the
\* ISO form of time 0 when it has none; and a truncation at the epoch pivot
\* that succeeds leaves no record newer than the epoch in the store.
C24_Pivot ==
    [][ /\ (/\ strategy = "manual"
            /\ Len(ops') = Len(ops) + 1
            /\ Last(ops').pc = "awaitDelete") =>
              LET pivotMessage == messages[IndexOf(messages, Last(ops').arg)]
                  request == Last(deleteCalls')
              IN /\ Len(deleteCalls') = Len(deleteCalls) + 1
                 /\ request.op = Len(ops')
                 /\ \A t \in pivotMessage.createdAt :
                       request.pivot = toISOString(t)
                 /\ pivotMessage.createdAt = None =>
                       request.pivot = "1970-01-01T00:00:00.000Z"
        /\ \A o \in 1..Len(ops) :
              (/\ strategy = "manual"
               /\ ResolvesNow(o)
               /\ deleteCalls[DeleteOf(o)].pivot = "1970-01-01T00:00:00.000Z") =>
                 /\ store # {}
                 /\ \A record \in store' : ~(record.createdAt > 0)
      ]_vars

\* a reload-from whose follower has no createdAt asked for a truncation at
\* the epoch, the truncation succeeded and the store holds no record
C24_Witness ==
    /\ strategy = "manual"
    /\ Len(ops) = 1
    /\ ops[1].kind = "reload"
    /\ Len(deleteCalls) = 1
    /\ deleteCalls[1].pivot = "1970-01-01T00:00:00.000Z"
    /\ deleteCalls[1].state = "resolved"
    /\ Len(messages) >= 2
    /\ store = {}

\* ---------------------------------------------------------------------- C25
\* the input holds a character that is not white space
NonBlank(chars) == \E i \in 1..Len(chars) : chars[i] \notin Whitespace

\* the positions of the attachments with status uploaded
UploadedAt(files) == {i \in 1..Len(files) : files[i].status = "uploaded"}

\* C25: in the delegated variant a submit sends iff the input is non-blank
\* after trimming or an attachment has status uploaded. When it sends, the
\* log gains exactly one user message, which is the one request's message:
\* its parts are the text part (iff the text is non-blank) followed by one
\* file part per uploaded attachment, in the attachments' order and for no
\* other attachment, and the input and the attachment list are emptied.
\* When it does not send, log, requests, input and attachments are unchanged.
C25_Submit ==
    [][ Invoked("delegated", "submit") =>
          LET sends == Len(transportCalls') > Len(transportCalls)
              k == IF NonBlank(input) THEN 1 ELSE 0
              at == UploadedAt(uploadedFiles)
          IN /\ sends <=> (NonBlank(input) \/ at # {})
             /\ sends =>
                  /\ Len(transportCalls') = Len(transportCalls) + 1
                  /\ messages' = Append(messages, Last(messages'))
                  /\ Last(transportCalls').body.message = Some(Last(messages'))
                  /\ Last(messages').role = "user"
                  /\ Last(messages').id \notin Ids(messages)
                  /\ \E parts \in Last(messages').parts :
                        /\ Len(parts) = k + Cardinality(at)
                        /\ k = 1 => /\ parts[1].type = "text"
                                    /\ parts[1].text = StringOf(input)
                        /\ \A i \in at :
                              LET part == parts[k + Cardinality({j \in at : j <= i})]
                              IN /\ part.type = "file"
                                 /\ part.name = uploadedFiles[i].name
                                 /\ part.url = uploadedFiles[i].url
                  /\ input' = <<>>
                  /\ uploadedFiles' = <<>>
             /\ ~sends => UNCHANGED <<messages, transportCalls, input, uploadedFiles>>
      ]_vars

\* a submit with the text " a\n" and two attachments of which only the second
\* was uploaded sent one message of two parts and emptied the input box
C25_Witness ==
    /\ strategy = "delegated"
    /\ Len(ops) = 1
    /\ ops[1].kind = "submit"
    /\ ops[1].pc = "done"
    /\ ops[1].text = " a\n"
    /\ Len(transportCalls) = 1
    /\ \E parts \in Last(messages).parts :
          /\ Len(parts) = 2
          /\ parts[1] = TextPart(" a\n")
          /\ parts[2].type = "file"
          /\ parts[2].name = "f2"
    /\ input = <<>>
    /\ uploadedFiles = <<>>

====
